---- MODULE Spec2Model ----
(***************************************************************************)
(* Model of mqttcpp::MqttClient (src/mqttclient/mqttclient.{hpp,cpp}) and  *)
(* of its payload types (src/mqttclient/types.hpp).                        *)
(*                                                                         *)
(* Two kinds of execution context are modelled:                            *)
(*   - the transport's callback thread, which runs the listeners and       *)
(*     handlers installed by the client and therefore                      *)
(*     self_handle_callback_event; a dispatch is a stack of frames because *)
(*     self_handle_callback_event calls itself for the synthesized         *)
(*     EVENT_DISCONNECTED;                                                 *)
(*   - caller threads, which invoke the public operations.                 *)
(* The wrapped mqtt::async_client is the environment: it accepts or        *)
(* rejects a request, completes tokens and raises callbacks                *)
(* nondeterministically.                                                   *)
(***************************************************************************)
EXTENDS Integers, Sequences, FiniteSets, TLC

\* ------------------------------------------------------------------ bounds
\* How many public calls and unsolicited transport callbacks a run starts.
MaxActs == 3
\* How many of them a run of the blocking-call specification starts.
MaxCalls == 2
\* The largest pointer value a free-standing CallbackVariant is built from.
MaxPtr == 2

\* ------------------------------------------------------------ value sets
Callers == {"c1"}
\* The transport's callback thread, when the handler it is running calls the
\* client.
DeliveryContext == "transport"
\* Two application threads that share one client for message consumption.
ConsumerThreads == {"c1", "c2"}

NoHandler == "none"
Handlers == {"h1", "h2"}

CallbackEvent ==
    {"EVENT_CONNECTED", "EVENT_DISCONNECTED", "EVENT_CONNECTION_LOST",
     "EVENT_CONNECTION_UPDATE", "EVENT_MESSAGE_ARRIVED",
     "EVENT_DELIVERY_COMPLETE", "EVENT_ACTION_SUCCESS", "EVENT_ACTION_FAILURE"}

ExceptionType == {"MQTT", "STANDARD", "UNKNOWN", "NONE"}

VariantType ==
    {"String", "TokenPointer", "MessagePointer", "DeliveryTokenPointer",
     "DisconnectData", "None"}

TokenType == {"CONNECT", "SUBSCRIBE", "PUBLISH", "UNSUBSCRIBE", "DISCONNECT"}

\* What the body handed to common_try can raise: nothing, an mqtt::exception,
\* another std::exception, or anything else.
Raised == {"nothing", "mqtt", "std", "other"}

Causes == {"", "cause"}
NullPtr == 0

\* mqtt::properties as the set of property codes it holds.
PropsValues == {{}, {"REASON_STRING"}, {"USER_PROPERTY"}}
ReasonCodes == {"NORMAL_DISCONNECTION", "SERVER_SHUTTING_DOWN"}
DisconnectDataValues == [props : PropsValues, reason : ReasonCodes]
\* What the transport reports on a server disconnect.
ReportedDisconnectData ==
    {[props |-> {}, reason |-> "NORMAL_DISCONNECTION"],
     [props |-> {"REASON_STRING"}, reason |-> "NORMAL_DISCONNECTION"],
     [props |-> {"USER_PROPERTY"}, reason |-> "SERVER_SHUTTING_DOWN"]}

\* ------------------------------------------------------- CallbackVariant
\* The converting constructors of CallbackVariant: the stored type is decided by
\* the constructor that was chosen.
CallbackVariantNone == [type |-> "None", val |-> NullPtr]
CallbackVariantToken(tok_ptr) == [type |-> "TokenPointer", val |-> tok_ptr]
CallbackVariantMessage(mes_ptr) == [type |-> "MessagePointer", val |-> mes_ptr]
CallbackVariantDeliveryToken(del_tok_ptr) ==
    [type |-> "DeliveryTokenPointer", val |-> del_tok_ptr]
CallbackVariantString(str) == [type |-> "String", val |-> str]
CallbackVariantDisconnectData(disconn_data) ==
    [type |-> "DisconnectData", val |-> disconn_data]
\* mqttclient.cpp passes a mqtt::connect_data to self_handle_callback_event and reads
\* it back with asConnectData(); the types.hpp that declares them is not in src/.
CallbackVariantConnectData(conn_data) == [type |-> "ConnectData", val |-> conn_data]
asConnectData(v) ==
    IF v.type = "ConnectData" THEN [ok |-> TRUE, val |-> v.val]
    ELSE [ok |-> FALSE, val |-> "runtime_error"]

\* The accessors: the stored value, or a std::runtime_error.
Thrown(what) == [ok |-> FALSE, val |-> what]
Returned(val) == [ok |-> TRUE, val |-> val]

asToken(v) ==
    IF v.type # "TokenPointer" THEN Thrown("runtime_error") ELSE Returned(v.val)
asMessage(v) ==
    IF v.type # "MessagePointer" THEN Thrown("runtime_error") ELSE Returned(v.val)
asDeliveryToken(v) ==
    IF v.type # "DeliveryTokenPointer" THEN Thrown("runtime_error") ELSE Returned(v.val)
\* asString without its check of type_.
asStringUnchecked(v) == Returned(v.val)
asString(v) ==
    IF v.type # "String" THEN Thrown("runtime_error") ELSE Returned(v.val)
asDisconnectData(v) ==
    IF v.type # "DisconnectData" THEN Thrown("runtime_error") ELSE Returned(v.val)

\* A copyFrom that keeps the None of the copy constructor's initialiser.
copyFromUntyped(other) == CallbackVariantNone
\* copyFrom: the type and, for the types the switch names, the value.
copyFrom(other) ==
    CASE other.type = "TokenPointer" -> CallbackVariantToken(other.val)
      [] other.type = "MessagePointer" -> CallbackVariantMessage(other.val)
      [] other.type = "DeliveryTokenPointer" -> CallbackVariantDeliveryToken(other.val)
      [] other.type = "String" -> CallbackVariantString(other.val)
      [] other.type = "DisconnectData" -> CallbackVariantDisconnectData(other.val)
      [] OTHER -> [type |-> other.type, val |-> NullPtr]

\* The copy made when a CallbackVariant is passed by value: the copy constructor,
\* which for a mqtt::connect_data belongs to the types.hpp that is not in src/.
PassByValue(other) ==
    IF other.type = "ConnectData" THEN CallbackVariantConnectData(other.val)
    ELSE copyFrom(other)

\* ------------------------------------------------------------------ state
VARIABLES
    exteventHandler_,  \* the external handler slot (NoHandler: empty std::function)
    excPtr_,           \* getVariant() of the trace excPtr_ points to
    consumeFlag_,      \* std::atomic<bool> consumeFlag_
    consuming,         \* whether client_ is in consuming mode
    queue,             \* client_'s consumer queue
    tokens,            \* every mqtt::token created so far, by identity
    stack,             \* transport thread: frames of self_handle_callback_event
    escaped,           \* last exception that left the dispatch on the transport thread
    call,              \* caller threads: the public call each one is in or has ended
    nActs,             \* public calls and transport callbacks started so far
    log,               \* history: invocations of the external handler
    lastRegistered,    \* history: argument of the last set/unset_event_handler
    handlerStable,     \* history: a handler was registered when the current dispatch
                       \*          began and no set/unset has run since
    failureReported,   \* history: a failure was reported since the last attempt
    cv, accRes,        \* a CallbackVariant value and the outcome of an accessor on it
    connState,         \* client_'s connection to the broker
    connNotice,        \* the connect token whose success the connected handler of
                       \*   client_ has still to announce (NullPtr: none)
    protocol,          \* the MQTT version the connect options ask for
    subscription,      \* broker: the QoS granted to this client's subscription to
                       \*   the topic (empty: not subscribed)
    heap,              \* the messages the transport has handed over, by pointer
    asked,             \* history: the arguments of the last subscribe or publish
    lost               \* history: the last report of a lost connection

clientVars == <<exteventHandler_, excPtr_, consumeFlag_>>
transportVars == <<consuming, queue, tokens, stack, escaped>>
historyVars == <<log, lastRegistered, handlerStable, failureReported>>
variantVars == <<cv, accRes>>
\* The connection and the broker, followed only by the specifications about
\* them; the others leave the transport's answers open.
brokerVars == <<connState, connNotice, protocol, subscription, heap, asked, lost>>
vars == <<clientVars, transportVars, historyVars, nActs, call, variantVars,
          brokerVars>>

\* ExceptionTrace's constructors: the variant each one sets.
ExceptionTraceDefault == "NONE"
ExceptionTraceOf(raised) ==
    CASE raised = "mqtt" -> "MQTT"
      [] raised = "std" -> "STANDARD"
      [] raised = "other" -> "UNKNOWN"
      [] OTHER -> ExceptionTraceDefault

\* A caller thread: where its call stands (idle, waiting in make_wait, returned,
\* threw), what the request raised, the value the call returns, the token it
\* holds and the timeout it waits with. History kept with it: which call it is
\* ("token": a token overload; "nowait", "forever", "timed": a wait overload
\* by its arguments; "start", "stop": consume_message(true/false); "get_next",
\* "get_next_disabled": get_next_message by the branch it took), whether its
\* wait ended by the timeout, the message get_next_message stored in msg, and
\* whether a consume_message repeats the one this thread made just before.
IdleCall ==
    [phase |-> "idle", raised |-> "nothing", res |-> FALSE, token |-> NullPtr,
     wait_for |-> 0, mode |-> "none", timedOut |-> FALSE, got |-> NullPtr,
     again |-> FALSE]

\* No accessor has been called on cv yet.
NoAccess == [acc |-> "none", ok |-> FALSE, val |-> NullPtr, on |-> CallbackVariantNone]

\* The state after MqttClient's constructor: no handler, an empty trace,
\* consumeFlag_(false), and the default handlers installed on client_.
InitClient ==
    /\ exteventHandler_ = NoHandler
    /\ excPtr_ = ExceptionTraceDefault
    /\ consumeFlag_ = FALSE
    /\ consuming = FALSE
    /\ queue = <<>>
    /\ tokens = <<>>
    /\ stack = <<>>
    /\ escaped = "none"
    /\ call = [c \in Callers \cup ConsumerThreads \cup {DeliveryContext} |-> IdleCall]
    /\ nActs = 0
    /\ log = <<>>
    /\ lastRegistered = NoHandler
    /\ handlerStable = FALSE
    /\ failureReported = FALSE

\* No request made yet to a client_ that is not connected.
NothingAsked == [op |-> "none", qos |-> 0, payload |-> ""]
\* No connection has been lost yet.
NothingLost == [arrival |-> 0, cause |-> "", handler |-> NoHandler]
InitBroker ==
    /\ connState = "Disconnected"
    /\ connNotice = NullPtr
    /\ subscription = {}
    /\ heap = <<>>
    /\ asked = NothingAsked
    /\ lost = NothingLost

Init ==
    /\ InitClient
    /\ cv = CallbackVariantNone
    /\ accRes = NoAccess
    /\ InitBroker
    /\ protocol = "MQTTVERSION_DEFAULT"

\* --------------------------------------------------- the handler slot
\* A set_event_handler that registers only into an empty slot.
SlotKeptIfSet(old, handler) == IF old = NoHandler THEN handler ELSE old
\* set_event_handler: exteventHandler_ = handler.
SlotAfterSet(old, handler) == handler
\* unset_event_handler: exteventHandler_ = nullptr.
SlotAfterUnset(old) == NoHandler

set_event_handler(handler) ==
    /\ nActs < MaxActs
    /\ nActs' = nActs + 1
    /\ exteventHandler_' = SlotAfterSet(exteventHandler_, handler)
    /\ lastRegistered' = handler
    /\ handlerStable' = FALSE
    /\ UNCHANGED <<excPtr_, consumeFlag_, transportVars, call, log, failureReported,
                   variantVars>>

unset_event_handler ==
    /\ nActs < MaxActs
    /\ nActs' = nActs + 1
    /\ exteventHandler_' = SlotAfterUnset(exteventHandler_)
    /\ lastRegistered' = NoHandler
    /\ handlerStable' = FALSE
    /\ UNCHANGED <<excPtr_, consumeFlag_, transportVars, call, log, failureReported,
                   variantVars>>

\* ------------------------------------------------ self_handle_callback_event
\* A frame of self_handle_callback_event: its parameters and where it stands
\* ("switch": in the switch; "synthesized": inside the nested call of the
\* EVENT_ACTION_SUCCESS case; "forward": at the test of the slot; "call": at
\* the call through the slot). History kept with the frame: the arguments it was
\* entered with, the operation whose completion caused it (NullPtr: none),
\* whether it is the synthesized event, whether its switch has been left, and
\* the place in the transport's sequence of callbacks of the callback it serves.
Frame(event, info, cause, synth, arrival) ==
    [event |-> event, info |-> info, pc |-> "switch",
     passed |-> [event |-> event, info |-> info],
     cause |-> cause, synth |-> synth, processed |-> FALSE, arrival |-> arrival]

\* The exception the switch raises for (event, info), or "none".
\* get<string>(props, REASON_STRING) throws when props holds no reason string.
InternalThrows(event, info) ==
    CASE event \in {"EVENT_CONNECTED", "EVENT_CONNECTION_LOST"} ->
            IF asString(info).ok THEN "none" ELSE "runtime_error"
      [] event = "EVENT_DISCONNECTED" ->
            IF ~asDisconnectData(info).ok THEN "runtime_error"
            ELSE IF asDisconnectData(info).val.props # {}
                    /\ "REASON_STRING" \notin asDisconnectData(info).val.props
                 THEN "bad_cast"
                 ELSE "none"
      [] event = "EVENT_CONNECTION_UPDATE" ->
            IF asConnectData(info).ok THEN "none" ELSE "runtime_error"
      [] event = "EVENT_MESSAGE_ARRIVED" ->
            IF asMessage(info).ok THEN "none" ELSE "runtime_error"
      [] event \in {"EVENT_ACTION_SUCCESS", "EVENT_ACTION_FAILURE"} ->
            IF asToken(info).ok THEN "none" ELSE "runtime_error"
      [] OTHER -> "none"

\* An EVENT_ACTION_SUCCESS case that compares the token's type with CONNECT.
SynthesizesOnConnect(event, info, toks) ==
    /\ event = "EVENT_ACTION_SUCCESS"
    /\ asToken(info).ok
    /\ asToken(info).val # NullPtr
    /\ toks[asToken(info).val].type = "CONNECT"
\* A switch that synthesizes for a disconnect that failed as well.
SynthesizesOnAnyAcknowledgement(event, info, toks) ==
    /\ event \in {"EVENT_ACTION_SUCCESS", "EVENT_ACTION_FAILURE"}
    /\ asToken(info).ok
    /\ asToken(info).val # NullPtr
    /\ toks[asToken(info).val].type = "DISCONNECT"
\* Whether the EVENT_ACTION_SUCCESS case calls self_handle_callback_event again
\* with EVENT_DISCONNECTED: the token is not null and its type is DISCONNECT.
SynthesizesDisconnected(event, info, toks) ==
    /\ event = "EVENT_ACTION_SUCCESS"
    /\ asToken(info).ok
    /\ asToken(info).val # NullPtr
    /\ toks[asToken(info).val].type = "DISCONNECT"

\* A synthesized event that reports the reason of a server that shuts down.
SynthesizedShuttingDown ==
    [props |-> {"REASON_STRING"}, reason |-> "SERVER_SHUTTING_DOWN"]
\* The disconnect_data of the synthesized event.
SynthesizedDisconnectData ==
    [props |-> {"REASON_STRING"}, reason |-> "NORMAL_DISCONNECTION"]

Top(stk) == stk[Len(stk)]
Pop(stk) == SubSeq(stk, 1, Len(stk) - 1)
SetTopPc(stk, pc) == [stk EXCEPT ![Len(stk)].pc = pc]

\* The frame once its switch has been left: the test of the slot comes next.
SwitchLeft(f) == [f EXCEPT !.pc = "forward", !.processed = TRUE]

\* A self_handle_callback_event that goes to the forwarding before its switch.
ForwardFirst(stk, toks) ==
    [stack |-> [stk EXCEPT ![Len(stk)].pc = "forward"], escaped |-> "none"]
\* The switch of the top frame, run to where the transport thread next reads the
\* slot: it raises (the exception unwinds every frame), or it enters the nested
\* call for the synthesized event and runs that frame's switch, or it breaks.
RECURSIVE RunSwitch(_, _)
RunSwitch(stk, toks) ==
    LET f == Top(stk)
        thrown == InternalThrows(f.event, f.info)
    IN  IF thrown # "none" THEN [stack |-> <<>>, escaped |-> thrown]
        ELSE IF SynthesizesDisconnected(f.event, f.info, toks)
        THEN RunSwitch(Append(SetTopPc(stk, "synthesized"),
                              Frame("EVENT_DISCONNECTED",
                                    CallbackVariantDisconnectData(
                                        SynthesizedDisconnectData),
                                    f.cause, TRUE, f.arrival)),
                       toks)
        ELSE [stack |-> [stk EXCEPT ![Len(stk)] = SwitchLeft(f)], escaped |-> "none"]

\* The top frame returns: the frame that called it leaves its switch.
ReturnFrom(stk) ==
    IF Len(stk) = 1 THEN <<>>
    ELSE [Pop(stk) EXCEPT ![Len(stk) - 1] = SwitchLeft(Pop(stk)[Len(stk) - 1])]

\* The failure of an operation has been reported once the dispatch of its
\* EVENT_ACTION_FAILURE has returned.
ReportsFailure(stk) == Len(stk) = 1 /\ Top(stk).event = "EVENT_ACTION_FAILURE"

\* if (exteventHandler_): with a handler the frame goes on to the call,
\* without one it returns.
TestSlot(stk) ==
    IF exteventHandler_ # NoHandler THEN SetTopPc(stk, "call") ELSE ReturnFrom(stk)

\* The place of a callback in the transport's sequence of callbacks: every
\* callback raises the count of acts or of tokens, and nothing lowers either.
Arrival(acts, toks) == acts + Len(toks)

\* The transport thread enters self_handle_callback_event(event, info) and runs
\* to the first test of the slot.
Enter(event, info, cause, toks) ==
    LET ran == RunSwitch(<<Frame(event, info, cause, FALSE, Arrival(nActs', toks))>>,
                         toks)
    IN  /\ stack = <<>>
        /\ handlerStable' = (exteventHandler_ # NoHandler)
        /\ IF ran.escaped # "none"
           THEN /\ stack' = <<>>
                /\ escaped' = ran.escaped
                /\ UNCHANGED failureReported
           ELSE /\ stack' = TestSlot(ran.stack)
                /\ failureReported' =
                      IF exteventHandler_ = NoHandler /\ ReportsFailure(ran.stack)
                      THEN TRUE ELSE failureReported
                /\ UNCHANGED escaped

\* The transport's callback thread is inside make_wait, called by the handler
\* it is running.
Blocked == call[DeliveryContext].phase = "waiting"

\* The test of the slot by a frame whose nested call has returned.
DispatchCheckHandler ==
    /\ stack # <<>>
    /\ Top(stack).pc = "forward"
    /\ stack' = TestSlot(stack)
    /\ failureReported' =
          IF exteventHandler_ = NoHandler /\ ReportsFailure(stack)
          THEN TRUE ELSE failureReported
    /\ UNCHANGED <<clientVars, consuming, queue, tokens, escaped, call, nActs, log,
                   lastRegistered, handlerStable, variantVars>>

\* A call of the handler that reaches it twice.
InvokeTwice(lg, stk) ==
    LET e == [handler |-> exteventHandler_, event |-> Top(stk).event,
              info |-> PassByValue(Top(stk).info), passed |-> Top(stk).passed,
              cause |-> Top(stk).cause, synth |-> Top(stk).synth,
              processed |-> Top(stk).processed, stable |-> handlerStable,
              arrival |-> Top(stk).arrival]
    IN  Append(Append(lg, e), e)
\* A call of the handler that is handed to a worker and overtakes the call
\* made before it.
InvokeOvertaking(lg, stk) ==
    LET e == [handler |-> exteventHandler_, event |-> Top(stk).event,
              info |-> PassByValue(Top(stk).info), passed |-> Top(stk).passed,
              cause |-> Top(stk).cause, synth |-> Top(stk).synth,
              processed |-> Top(stk).processed, stable |-> handlerStable,
              arrival |-> Top(stk).arrival]
    IN  IF lg = <<>> THEN <<e>>
        ELSE Append(Append(SubSeq(lg, 1, Len(lg) - 1), e), lg[Len(lg)])
\* What the handler has seen once exteventHandler_(event, info) has been called
\* for the top frame: the event and a copy of the payload, in the order of the
\* calls.
Invoke(lg, stk) ==
    Append(lg, [handler |-> exteventHandler_,
                event |-> Top(stk).event,
                info |-> PassByValue(Top(stk).info),
                passed |-> Top(stk).passed,
                cause |-> Top(stk).cause,
                synth |-> Top(stk).synth,
                processed |-> Top(stk).processed,
                stable |-> handlerStable,
                arrival |-> Top(stk).arrival])

\* exteventHandler_(event, info): the call through the slot as it is now; an
\* empty std::function raises std::bad_function_call. The frame then returns.
DispatchCallHandler ==
    /\ stack # <<>>
    /\ Top(stack).pc = "call"
    /\ ~Blocked
    /\ IF exteventHandler_ = NoHandler
       THEN /\ stack' = <<>>
            /\ escaped' = "bad_function_call"
            /\ UNCHANGED <<log, failureReported>>
       ELSE /\ log' = Invoke(log, stack)
            /\ stack' = ReturnFrom(stack)
            /\ failureReported' =
                  IF ReportsFailure(stack) THEN TRUE ELSE failureReported
            /\ UNCHANGED escaped
    /\ UNCHANGED <<clientVars, consuming, queue, tokens, call, nActs, lastRegistered,
                   handlerStable, variantVars>>

\* --------------------------------------------- callbacks of the transport
\* A token handed out by client_ for an accepted request. The transport gives
\* every request its own identifier.
IssuedToken(type, msgId) ==
    [type |-> type, origin |-> "issued", complete |-> FALSE, rc |-> "none",
     msgId |-> msgId]

\* mqtt::token::create(tok.get_type(), client, topics, user context, listener): a
\* new token of the same type; it is not complete and has no message id.
TokenCreate(tok) ==
    [type |-> tok.type, origin |-> "created", complete |-> FALSE, rc |-> "none",
     msgId |-> 0]

InFlight == {t \in 1..Len(tokens) : tokens[t].origin = "issued" /\ ~tokens[t].complete}

\* The event a DefaultActionListener passes on.
ListenerEvent(success) ==
    IF success THEN "EVENT_ACTION_SUCCESS" ELSE "EVENT_ACTION_FAILURE"

\* The token a DefaultActionListener passes on for the token it was called
\* with: the one token::create makes.
ListenerToken(tok) == TokenCreate(tok)

\* DefaultActionListener::on_success / on_failure, called by the transport when
\* it completes the token t.
DefaultActionListener(t, success) ==
    /\ t \in InFlight
    /\ UNCHANGED nActs
    /\ LET done == [tokens EXCEPT ![t].complete = TRUE,
                                  ![t].rc = IF success THEN "ok" ELSE "fail"]
           made == Append(done, ListenerToken(tokens[t]))
       IN  /\ tokens' = made
           /\ Enter(ListenerEvent(success), CallbackVariantToken(Len(made)), t, made)
    /\ UNCHANGED <<clientVars, consuming, queue, call, log, lastRegistered,
                   variantVars>>

\* The handlers set_default_handler installs on client_: the event and the
\* CallbackVariant each lambda builds from its argument.
DefaultHandlerKinds ==
    {"connected", "connection_lost", "disconnected", "update_connection", "message"}

\* A set_default_handler whose connected handler reports a lost connection.
DefaultHandlerEventLost(kind) ==
    CASE kind \in {"connected", "connection_lost"} -> "EVENT_CONNECTION_LOST"
      [] kind = "disconnected" -> "EVENT_DISCONNECTED"
      [] kind = "update_connection" -> "EVENT_CONNECTION_UPDATE"
      [] kind = "message" -> "EVENT_MESSAGE_ARRIVED"
DefaultHandlerEvent(kind) ==
    CASE kind = "connected" -> "EVENT_CONNECTED"
      [] kind = "connection_lost" -> "EVENT_CONNECTION_LOST"
      [] kind = "disconnected" -> "EVENT_DISCONNECTED"
      [] kind = "update_connection" -> "EVENT_CONNECTION_UPDATE"
      [] kind = "message" -> "EVENT_MESSAGE_ARRIVED"

\* A connection_lost handler that passes no cause on.
DefaultHandlerInfoNoCause(kind, arg) ==
    CASE kind = "connected" -> CallbackVariantString(arg)
      [] kind = "connection_lost" -> CallbackVariantString("")
      [] kind = "disconnected" -> CallbackVariantDisconnectData(arg)
      [] kind = "update_connection" -> CallbackVariantConnectData(arg)
      [] kind = "message" -> CallbackVariantMessage(arg)
DefaultHandlerInfo(kind, arg) ==
    CASE kind \in {"connected", "connection_lost"} -> CallbackVariantString(arg)
      [] kind = "disconnected" -> CallbackVariantDisconnectData(arg)
      [] kind = "update_connection" -> CallbackVariantConnectData(arg)
      [] kind = "message" -> CallbackVariantMessage(arg)

\* What the transport can pass to each handler.
MessagePtrs == {1}
ConnectDataValues == {"user"}
DefaultHandlerArgs(kind) ==
    CASE kind \in {"connected", "connection_lost"} -> Causes
      [] kind = "disconnected" -> ReportedDisconnectData
      [] kind = "update_connection" -> ConnectDataValues
      [] kind = "message" -> MessagePtrs

\* The transport calls one of the installed handlers; a message also goes to the
\* consumer queue while client_ is consuming.
DefaultHandler(kind, arg) ==
    /\ nActs < MaxActs
    /\ nActs' = nActs + 1
    /\ Enter(DefaultHandlerEvent(kind), DefaultHandlerInfo(kind, arg), NullPtr, tokens)
    /\ queue' = IF kind = "message" /\ consuming THEN Append(queue, arg) ELSE queue
    /\ UNCHANGED <<clientVars, consuming, tokens, call, log, lastRegistered,
                   variantVars>>

\* ------------------------------------------------------ public operations
\* A common_try that clears the trace whatever fn raised.
CommonTryTraceCleared(raised) == ExceptionTraceDefault
\* common_try: the trace it stores and the value it returns, by what fn raised.
CommonTryTrace(raised) == ExceptionTraceOf(raised)
CommonTryResult(raised) == raised = "nothing"

CanCall(c) == call[c].phase \in {"idle", "returned", "threw"} /\ nActs < MaxActs

\* The request lambda: token = client_.<op>(...), unless client_ raises.
TokensAfterRequest(op, raised) ==
    IF raised = "nothing" THEN Append(tokens, IssuedToken(op, Len(tokens) + 1))
    ELSE tokens
\* A request that resets the caller's token before it asks client_.
TokenResetFirst(token, raised) ==
    IF raised = "nothing" THEN Len(tokens) + 1 ELSE NullPtr
TokenAfterRequest(token, raised) ==
    IF raised = "nothing" THEN Len(tokens) + 1 ELSE token

\* connect/disconnect/subscribe/unsubscribe/publish(mqtt::token_ptr& token, ...):
\* the caller's token variable keeps its value when the request raises.
IssueByToken(c, op, raised) ==
    /\ CanCall(c)
    /\ nActs' = nActs + 1
    /\ tokens' = TokensAfterRequest(op, raised)
    /\ excPtr_' = CommonTryTrace(raised)
    /\ call' = [call EXCEPT ![c] =
                  [phase |-> "returned", raised |-> raised,
                   res |-> CommonTryResult(raised),
                   token |-> TokenAfterRequest(call[c].token, raised),
                   wait_for |-> 0, mode |-> "token", timedOut |-> FALSE,
                   got |-> NullPtr,
                   again |-> FALSE]]
    /\ failureReported' = (raised # "nothing")
    /\ UNCHANGED <<exteventHandler_, consumeFlag_, consuming, queue, stack, escaped,
                   log, lastRegistered, handlerStable, variantVars>>

\* A wait overload that waits whenever it is asked to.
WaitsWhenAsked(res, wait) == wait
\* if (res && wait) make_wait(token, wait_for);
Waits(res, wait) == res /\ wait

\* The wait overloads by their arguments: wait_for > 0 ? wait_for() : wait().
WaitMode(wait, wait_for) ==
    IF ~wait THEN "nowait" ELSE IF wait_for > 0 THEN "timed" ELSE "forever"

WaitFors == {0, 5}

\* connect/disconnect/subscribe/unsubscribe/publish(..., bool wait, unsigned
\* wait_for): a local null token, the token overload, then the wait.
IssueAndWait(c, op, wait, wait_for, raised) ==
    /\ CanCall(c)
    /\ nActs' = nActs + 1
    /\ tokens' = TokensAfterRequest(op, raised)
    /\ excPtr_' = CommonTryTrace(raised)
    /\ call' = [call EXCEPT ![c] =
                  [phase |-> IF Waits(CommonTryResult(raised), wait)
                             THEN "waiting" ELSE "returned",
                   raised |-> raised,
                   res |-> CommonTryResult(raised),
                   token |-> TokenAfterRequest(NullPtr, raised),
                   wait_for |-> IF Waits(CommonTryResult(raised), wait)
                                THEN wait_for ELSE 0,
                   mode |-> WaitMode(wait, wait_for), timedOut |-> FALSE,
                   got |-> NullPtr,
                   again |-> FALSE]]
    /\ failureReported' = (raised # "nothing")
    /\ UNCHANGED <<exteventHandler_, consumeFlag_, consuming, queue, stack, escaped,
                   log, lastRegistered, handlerStable, variantVars>>

\* token->wait() and token->wait_for(wait_for) end once the token is complete, and
\* then raise the mqtt::exception of a failed operation; wait_for also ends when
\* the time is over.
WaitCompleted(tok) == tok.complete
WaitThrows(tok) == tok.complete /\ tok.rc = "fail"
\* A wait that ends by time whatever wait_for is.
WaitGivesUp(tok, wait_for) == ~tok.complete
WaitTimesOut(tok, wait_for) == wait_for > 0 /\ ~tok.complete

\* A wait that gives the operation up when its time is over.
CancelledByWait(toks, t) ==
    IF toks[t].complete THEN toks
    ELSE [toks EXCEPT ![t].complete = TRUE, ![t].rc = "cancelled"]
\* What make_wait does to the token it waited for: nothing.
TokensAfterWait(toks, t) == toks

\* make_wait, called outside common_try: the call returns res, or the exception
\* of the wait leaves it.
make_wait(c) ==
    /\ call[c].phase = "waiting"
    /\ LET tok == tokens[call[c].token]
       IN  /\ WaitCompleted(tok) \/ WaitTimesOut(tok, call[c].wait_for)
           /\ call' = [call EXCEPT ![c].phase =
                          IF WaitThrows(tok) THEN "threw" ELSE "returned",
                                   ![c].wait_for = 0,
                                   ![c].timedOut = ~WaitCompleted(tok)]
    /\ tokens' = TokensAfterWait(tokens, call[c].token)
    /\ UNCHANGED <<clientVars, consuming, queue, stack, escaped, historyVars, nActs,
                   variantVars>>

\* A consume_message that flips the flag it finds.
FlagFlipped(old, allow) == ~old
\* consumeFlag_.store(allow).
FlagAfterConsume(old, allow) == allow

\* consume_message(allow), behind start_saving_message and stop_saving_message:
\* client_.start_consuming() or stop_consuming(), then consumeFlag_.store(allow);
\* both are skipped from the point where client_ raises.
\* is_saving_message(): consumeFlag_.load().
is_saving_message == consumeFlag_

\* A consume_message that stores the flag before it asks client_.
ConsumeMessageFlagFirst(st, allow, raised) ==
    [flag |-> FlagAfterConsume(st.flag, allow),
     consuming |-> IF raised = "nothing" THEN allow ELSE st.consuming,
     queue |-> IF raised = "nothing" THEN <<>> ELSE st.queue,
     trace |-> CommonTryTrace(raised),
     res |-> CommonTryResult(raised)]
\* What consume_message(allow) makes of the consumption state and what it
\* returns: start_consuming gives client_ a new queue and stop_consuming takes
\* the queue away, then the flag is stored; a request that raises leaves all
\* three as they were. common_try sets the trace and the returned value.
ConsumeMessageOutcome(st, allow, raised) ==
    [flag |-> IF raised = "nothing" THEN FlagAfterConsume(st.flag, allow)
              ELSE st.flag,
     consuming |-> IF raised = "nothing" THEN allow ELSE st.consuming,
     queue |-> IF raised = "nothing" THEN <<>> ELSE st.queue,
     trace |-> CommonTryTrace(raised),
     res |-> CommonTryResult(raised)]

\* The consumption state of the client, with the value the last
\* consume_message returned (FALSE before any).
ConsumeState(res) ==
    [flag |-> consumeFlag_, consuming |-> consuming, queue |-> queue,
     trace |-> excPtr_, res |-> res]

\* History: this consume_message(allow) follows a consume_message(allow) of the
\* same thread that returned true.
Repeats(prev, allow) ==
    /\ prev.phase = "returned"
    /\ prev.res
    /\ prev.mode = (IF allow THEN "start" ELSE "stop")

consume_message(c, allow, raised) ==
    LET out == ConsumeMessageOutcome(ConsumeState(call[c].res), allow, raised)
    IN  /\ CanCall(c)
        /\ nActs' = nActs + 1
        /\ consuming' = out.consuming
        /\ queue' = out.queue
        /\ consumeFlag_' = out.flag
        /\ excPtr_' = out.trace
        /\ call' = [call EXCEPT ![c] =
                      [phase |-> "returned", raised |-> raised,
                       res |-> out.res, token |-> call[c].token,
                       wait_for |-> 0, mode |-> IF allow THEN "start" ELSE "stop",
                       timedOut |-> FALSE, got |-> NullPtr,
                       again |-> Repeats(call[c], allow)]]
        /\ failureReported' = (raised # "nothing")
        /\ UNCHANGED <<exteventHandler_, tokens, stack, escaped, log, lastRegistered,
                       handlerStable, variantVars>>

\* ~MqttClient(): consume_message(false), and nothing else; the members, client_
\* among them, are destroyed after it. No call is made on a destroyed client.
Destroyed == \E c \in Callers : call[c].mode = "destroyed"

Destructor(c, raised) ==
    LET out == ConsumeMessageOutcome(ConsumeState(call[c].res), FALSE, raised)
    IN  /\ CanCall(c)
        /\ ~Destroyed
        /\ nActs' = nActs + 1
        /\ consuming' = out.consuming
        /\ queue' = out.queue
        /\ consumeFlag_' = out.flag
        /\ excPtr_' = out.trace
        /\ call' = [call EXCEPT ![c] =
                      [phase |-> "returned", raised |-> raised,
                       res |-> out.res, token |-> call[c].token,
                       wait_for |-> 0, mode |-> "destroyed",
                       timedOut |-> FALSE, got |-> NullPtr, again |-> FALSE]]
        /\ failureReported' = (raised # "nothing")
        /\ UNCHANGED <<exteventHandler_, tokens, stack, escaped, log, lastRegistered,
                       handlerStable, variantVars, brokerVars>>

\* client_.try_consume_message(&msg_ptr) inside the lambda: the oldest queued
\* message, if there is one and nothing was raised, goes to msg.
TryConsumed(q, raised) ==
    IF raised = "nothing" /\ q # <<>> THEN Head(q) ELSE NullPtr
QueueAfterTryConsume(q, raised) ==
    IF raised = "nothing" /\ q # <<>> THEN Tail(q) ELSE q

\* get_next_message: disabled, it clears the trace and returns false; enabled,
\* it takes the oldest queued message, if any, inside common_try.
get_next_message(c, raised) ==
    /\ CanCall(c)
    /\ nActs' = nActs + 1
    /\ IF ~consumeFlag_
       THEN /\ raised = "nothing"
            /\ excPtr_' = ExceptionTraceDefault
            /\ call' = [call EXCEPT ![c] =
                          [phase |-> "returned", raised |-> raised, res |-> FALSE,
                           token |-> call[c].token, wait_for |-> 0,
                           mode |-> "get_next_disabled", timedOut |-> FALSE,
                           got |-> NullPtr,
                   again |-> FALSE]]
            /\ UNCHANGED queue
       ELSE /\ excPtr_' = CommonTryTrace(raised)
            /\ call' = [call EXCEPT ![c] =
                          [phase |-> "returned", raised |-> raised,
                           res |-> CommonTryResult(raised),
                           token |-> call[c].token, wait_for |-> 0,
                           mode |-> "get_next", timedOut |-> FALSE,
                           got |-> TryConsumed(queue, raised),
                   again |-> FALSE]]
            /\ queue' = QueueAfterTryConsume(queue, raised)
    /\ failureReported' = (raised # "nothing")
    /\ UNCHANGED <<exteventHandler_, consumeFlag_, consuming, tokens, stack, escaped,
                   log, lastRegistered, handlerStable, variantVars>>

\* ------------------------------------- message consumption, step by step
\* consume_message up to the end of the block that holds consumeGuard_:
\* start_consuming or stop_consuming has run, consumeFlag_ is not stored yet.
\* A request that raises leaves the lambda, and common_try returns false.
consume_message_lock(c, allow, raised) ==
    /\ CanCall(c)
    /\ nActs' = nActs + 1
    /\ IF raised = "nothing"
       THEN /\ consuming' = allow
            /\ queue' = <<>>
            /\ UNCHANGED <<excPtr_, failureReported>>
       ELSE /\ excPtr_' = CommonTryTrace(raised)
            /\ failureReported' = TRUE
            /\ UNCHANGED <<consuming, queue>>
    /\ call' = [call EXCEPT ![c] =
                  [phase |-> IF raised = "nothing" THEN "storing" ELSE "returned",
                   raised |-> raised, res |-> FALSE, token |-> call[c].token,
                   wait_for |-> 0, mode |-> IF allow THEN "start" ELSE "stop",
                   timedOut |-> FALSE, got |-> NullPtr,
                   again |-> FALSE]]
    /\ UNCHANGED <<exteventHandler_, consumeFlag_, tokens, stack, escaped, log,
                   lastRegistered, handlerStable, variantVars>>

\* consumeFlag_.store(allow), after the lock was released, and common_try's
\* return.
consume_message_store(c) ==
    /\ call[c].phase = "storing"
    /\ consumeFlag_' = FlagAfterConsume(consumeFlag_, call[c].mode = "start")
    /\ excPtr_' = CommonTryTrace("nothing")
    /\ failureReported' = FALSE
    /\ call' = [call EXCEPT ![c].phase = "returned",
                            ![c].res = CommonTryResult("nothing")]
    /\ UNCHANGED <<exteventHandler_, transportVars, log, lastRegistered,
                   handlerStable, nActs, variantVars>>

\* get_next_message up to consumeFlag_.load(): the disabled branch returns at
\* once, the other one goes on to the lambda.
get_next_message_load(c) ==
    /\ CanCall(c)
    /\ nActs' = nActs + 1
    /\ IF ~consumeFlag_
       THEN /\ excPtr_' = ExceptionTraceDefault
            /\ failureReported' = FALSE
            /\ call' = [call EXCEPT ![c] =
                          [phase |-> "returned", raised |-> "nothing", res |-> FALSE,
                           token |-> call[c].token, wait_for |-> 0,
                           mode |-> "get_next_disabled", timedOut |-> FALSE,
                           got |-> NullPtr,
                   again |-> FALSE]]
       ELSE /\ call' = [call EXCEPT ![c] =
                          [phase |-> "loaded", raised |-> "nothing", res |-> FALSE,
                           token |-> call[c].token, wait_for |-> 0,
                           mode |-> "get_next", timedOut |-> FALSE,
                           got |-> NullPtr,
                   again |-> FALSE]]
            /\ UNCHANGED <<excPtr_, failureReported>>
    /\ UNCHANGED <<exteventHandler_, consumeFlag_, transportVars, log,
                   lastRegistered, handlerStable, variantVars>>

\* What a try_consume_message on a client_ that is not consuming can end in
\* (its queue was destroyed by stop_consuming): the process dies, or the call
\* comes back with nothing.
StoppedOutcomes == {"crashed", "returned"}

\* The lambda of get_next_message, under consumeGuard_: try_consume_message and
\* the store into msg. The call is marked "get_next_stopped" when client_ was
\* not consuming at that moment.
get_next_message_try(c, raised, outcome) ==
    /\ call[c].phase = "loaded"
    /\ IF consuming
       THEN /\ outcome = "returned"
            /\ call' = [call EXCEPT ![c].phase = "returned",
                                    ![c].raised = raised,
                                    ![c].res = CommonTryResult(raised),
                                    ![c].got = TryConsumed(queue, raised)]
            /\ queue' = QueueAfterTryConsume(queue, raised)
            /\ excPtr_' = CommonTryTrace(raised)
            /\ failureReported' = (raised # "nothing")
       ELSE /\ raised = "nothing"
            /\ call' = [call EXCEPT ![c].phase = outcome,
                                    ![c].mode = "get_next_stopped",
                                    ![c].res = CommonTryResult(raised)]
            /\ excPtr_' = CommonTryTrace(raised)
            /\ failureReported' = FALSE
            /\ UNCHANGED queue
    /\ UNCHANGED <<exteventHandler_, consumeFlag_, consuming, tokens, stack, escaped,
                   log, lastRegistered, handlerStable, nActs, variantVars>>

\* --------------------------------------------------------- the connection
ConnStates == {"Disconnected", "Connecting", "Connected", "Disconnecting"}

\* connected(): declared in mqttclient.hpp, its body is not among the sources;
\* it reads whether the state of the connection is Connected.
connected == connState = "Connected"

\* What the exception trace holds after a failure of the transport or of the
\* protocol: the mqtt::exception client_ raised.
TransportFailureTraces == {ExceptionTraceOf("mqtt")}

\* What client_ can answer to a request by the state of the connection: a
\* subscribe, unsubscribe or disconnect of a client_ that is not connected raises
\* an mqtt::exception, a publish does so unless client_ buffers while offline,
\* and any request can be accepted or raise otherwise.
ConnAnswers(state, op) ==
    IF state = "Connected" \/ op = "CONNECT" THEN Raised
    ELSE IF op = "PUBLISH" THEN {"mqtt", "nothing"}
    ELSE {"mqtt"}

\* A connect that is taken as connected as soon as client_ accepts it.
ConnSkipsConnecting(state, op, raised) ==
    IF raised # "nothing" THEN state
    ELSE IF op = "CONNECT" /\ state = "Disconnected" THEN "Connected"
    ELSE IF op = "DISCONNECT" /\ state \in {"Connected", "Connecting"}
         THEN "Disconnecting"
    ELSE state
\* The state of the connection after client_ took a request: a connect of a
\* disconnected client_ starts connecting, a disconnect starts disconnecting, a
\* request that raised changes nothing.
ConnAfterRequest(state, op, raised) ==
    IF raised # "nothing" THEN state
    ELSE IF op = "CONNECT" /\ state = "Disconnected" THEN "Connecting"
    ELSE IF op = "DISCONNECT" /\ state \in {"Connected", "Connecting"}
         THEN "Disconnecting"
    ELSE state

\* The completions the transport can report by the state of the connection: a
\* connect succeeds only while the connection is being made or is there.
CompletionPossible(state, type, success) ==
    (type = "CONNECT" /\ success) => state \in {"Connecting", "Connected"}

\* A connect that completes and leaves the state of the connection as it is.
ConnStaysAfterCompletion(state, type, success) == state
\* The state of the connection after the transport completed a token: a connect
\* that succeeded has connected, one that failed is back to disconnected, a
\* disconnect has disconnected.
ConnAfterCompletion(state, type, success) ==
    CASE type = "CONNECT" /\ success -> "Connected"
      [] type = "CONNECT" /\ ~success /\ state = "Connecting" -> "Disconnected"
      [] type = "DISCONNECT" /\ state = "Disconnecting" -> "Disconnected"
      [] OTHER -> state

\* The state of the connection after it was lost: client_ connects again by
\* itself when the connect options ask for automatic reconnect.
ConnAfterLost(automatic_reconnect) ==
    IF automatic_reconnect THEN "Connecting" ELSE "Disconnected"

\* A token overload, with the answer client_ gives in the state of the
\* connection.
Request(c, op, raised) ==
    /\ raised \in ConnAnswers(connState, op)
    /\ IssueByToken(c, op, raised)
    /\ connState' = ConnAfterRequest(connState, op, raised)
    /\ UNCHANGED <<connNotice, protocol, subscription, heap, asked, lost>>

\* disconnect(bool wait, unsigned int wait_for).
DisconnectAndWait(c, wait, wait_for, raised) ==
    /\ raised \in ConnAnswers(connState, "DISCONNECT")
    /\ IssueAndWait(c, "DISCONNECT", wait, wait_for, raised)
    /\ connState' = ConnAfterRequest(connState, "DISCONNECT", raised)
    /\ UNCHANGED <<connNotice, protocol, subscription, heap, asked, lost>>

\* The transport completes a token: the listener is called and, after a connect
\* that succeeded, the connected handler is due next on the same thread.
Completion(t, success) ==
    /\ connNotice = NullPtr
    /\ t \in InFlight
    /\ CompletionPossible(connState, tokens[t].type, success)
    /\ DefaultActionListener(t, success)
    /\ connState' = ConnAfterCompletion(connState, tokens[t].type, success)
    /\ connNotice' = IF tokens[t].type = "CONNECT" /\ success THEN t ELSE NullPtr
    /\ UNCHANGED <<protocol, subscription, heap, asked, lost>>

\* The connected handler of set_default_handler, called by the transport right
\* after the listener of the connect, for the same report of the broker.
ConnectedNotice ==
    /\ connNotice # NullPtr
    /\ UNCHANGED nActs
    /\ Enter(DefaultHandlerEvent("connected"),
             DefaultHandlerInfo("connected", "cause"), connNotice, tokens)
    /\ connNotice' = NullPtr
    /\ UNCHANGED <<clientVars, consuming, queue, tokens, call, log, lastRegistered,
                   variantVars, connState, protocol, subscription, heap, asked,
                   lost>>

\* The connection_lost handler: the connection is gone. History: the place of
\* this callback among the callbacks, its cause and the handler registered.
ConnectionLost(arg, automatic_reconnect) ==
    /\ connNotice = NullPtr
    /\ connState = "Connected"
    /\ DefaultHandler("connection_lost", arg)
    /\ connState' = ConnAfterLost(automatic_reconnect)
    /\ lost' = [arrival |-> Arrival(nActs', tokens), cause |-> arg,
                handler |-> exteventHandler_]
    /\ UNCHANGED <<connNotice, protocol, subscription, heap, asked>>

\* The connected handler after client_ has connected again by itself.
Reconnected(arg) ==
    /\ connNotice = NullPtr
    /\ connState = "Connecting"
    /\ \A t \in InFlight : tokens[t].type # "CONNECT"
    /\ nActs' = nActs + 1
    /\ Enter(DefaultHandlerEvent("connected"),
             DefaultHandlerInfo("connected", arg), NullPtr, tokens)
    /\ connState' = "Connected"
    /\ UNCHANGED <<clientVars, consuming, queue, tokens, call, log, lastRegistered,
                   variantVars, connNotice, protocol, subscription, heap, asked,
                   lost>>

\* The disconnected handler: the broker has closed the connection.
ServerDisconnected(arg) ==
    /\ connNotice = NullPtr
    /\ connState = "Connected"
    /\ DefaultHandler("disconnected", arg)
    /\ connState' = "Disconnected"
    /\ UNCHANGED <<connNotice, protocol, subscription, heap, asked, lost>>

\* ------------------------------------------------ subscribe and publish
\* The topic, the payloads and the QoS values a caller passes; unsigned int qos
\* takes any value, 3 stands for those that are no QoS.
Topic == "test/topic"
Payloads == {"P1", "P2"}
ValidQos == {0, 1, 2}
QosAsked == ValidQos \cup {3}
ProtocolVersions == {"MQTTVERSION_DEFAULT", "MQTTVERSION_5"}

\* mqtt::subscribe_options(true, true, DONT_SEND_RETAINED): its first argument
\* is the no-local option.
SubscribeNoLocal == TRUE

\* What client_ can answer to a subscribe or a publish: a QoS that is none makes
\* it raise an mqtt::exception.
QosAnswers(qos) == IF qos \in ValidQos THEN Raised ELSE {"mqtt"}

\* subscribe(mqtt::token_ptr& token, topic, qos). The broker takes the
\* subscription of a request client_ accepted, or refuses it.
subscribe(c, qos, raised, granted) ==
    /\ raised \in QosAnswers(qos)
    /\ IssueByToken(c, "SUBSCRIBE", raised)
    /\ asked' = [op |-> "SUBSCRIBE", qos |-> qos, payload |-> ""]
    /\ subscription' = IF raised = "nothing" /\ granted THEN {qos} ELSE subscription
    /\ UNCHANGED <<connState, connNotice, protocol, heap, lost>>

\* Whether the broker sends a message back to the client that published it: not
\* to a no-local subscription, an option of MQTT 5.
SentBack(version) == ~(version = "MQTTVERSION_5" /\ SubscribeNoLocal)

\* The QoS the broker delivers with: the lower of the message's and the
\* subscription's.
DeliveredQos(qos, subs) ==
    IF \E g \in subs : g < qos THEN CHOOSE g \in subs : g < qos ELSE qos

\* The messages the broker sends to the client for a publish it accepted.
Routed(payload, qos, raised) ==
    IF raised = "nothing" /\ subscription # {} /\ SentBack(protocol)
    THEN <<[topic |-> Topic, payload |-> payload,
            qos |-> DeliveredQos(qos, subscription), handed |-> FALSE]>>
    ELSE <<>>

\* publish(mqtt::token_ptr& token, topic, payload, qos):
\* mqtt::make_message(topic, payload, qos, false) goes to client_.
publish(c, payload, qos, raised) ==
    /\ raised \in QosAnswers(qos)
    /\ IssueByToken(c, "PUBLISH", raised)
    /\ asked' = [op |-> "PUBLISH", qos |-> qos, payload |-> payload]
    /\ heap' = heap \o Routed(payload, qos, raised)
    /\ UNCHANGED <<connState, connNotice, protocol, subscription, lost>>

\* The transport completes a token; a subscribe succeeds when the broker took
\* the subscription.
Acknowledge(t, success) ==
    /\ t \in InFlight
    /\ tokens[t].type = "SUBSCRIBE" => (success <=> subscription # {})
    /\ DefaultActionListener(t, success)
    /\ UNCHANGED brokerVars

\* The message callback of set_default_handler, called by the transport with a
\* message of the broker; the message also goes to the consumer queue while
\* client_ is consuming.
MessageArrives(ptr) ==
    /\ ptr \in 1..Len(heap)
    /\ ~heap[ptr].handed
    /\ nActs' = nActs + 1
    /\ Enter(DefaultHandlerEvent("message"), DefaultHandlerInfo("message", ptr),
             NullPtr, tokens)
    /\ queue' = IF consuming THEN Append(queue, ptr) ELSE queue
    /\ heap' = [heap EXCEPT ![ptr].handed = TRUE]
    /\ UNCHANGED <<clientVars, consuming, tokens, call, log, lastRegistered,
                   variantVars, connState, connNotice, protocol, subscription,
                   asked, lost>>

\* --------------------------------------------------------- specifications
\* The transport thread: completions of tokens, unsolicited callbacks and the
\* steps of a dispatch under way.
TransportNext ==
    \/ \E t \in InFlight, success \in BOOLEAN : DefaultActionListener(t, success)
          /\ UNCHANGED brokerVars
    \/ \E kind \in DefaultHandlerKinds :
          \E arg \in DefaultHandlerArgs(kind) : DefaultHandler(kind, arg)
                /\ UNCHANGED brokerVars
    \/ DispatchCheckHandler /\ UNCHANGED brokerVars
    \/ DispatchCallHandler /\ UNCHANGED brokerVars

\* Requests by token, the handler slot and the transport.
Next ==
    \/ \E h \in Handlers : set_event_handler(h) /\ UNCHANGED brokerVars
    \/ unset_event_handler /\ UNCHANGED brokerVars
    \/ \E c \in Callers, op \in TokenType, raised \in Raised :
          IssueByToken(c, op, raised) /\ UNCHANGED brokerVars
    \/ TransportNext

Spec == Init /\ [][Next]_vars

\* Both overloads of the requests, the wait, one handler and the completions of
\* the transport.
CallsNext ==
    \/ /\ nActs < MaxCalls
       /\ UNCHANGED brokerVars
       /\ \/ set_event_handler("h1")
          \/ \E c \in Callers, op \in TokenType, raised \in Raised :
                IssueByToken(c, op, raised)
          \/ \E c \in Callers, op \in TokenType, wait \in BOOLEAN,
                wait_for \in WaitFors, raised \in Raised :
                IssueAndWait(c, op, wait, wait_for, raised)
    \/ \E c \in Callers : make_wait(c) /\ UNCHANGED brokerVars
    \/ \E t \in InFlight, success \in BOOLEAN :
          DefaultActionListener(t, success) /\ UNCHANGED brokerVars
    \/ DispatchCheckHandler /\ UNCHANGED brokerVars
    \/ DispatchCallHandler /\ UNCHANGED brokerVars

SpecCalls == Init /\ [][CallsNext]_vars

\* The handler, while exteventHandler_(event, info) runs it on the transport's
\* callback thread, calls a wait overload of the client.
HandlerIssueAndWait(op, wait, wait_for, raised) ==
    /\ stack # <<>>
    /\ Top(stack).pc = "call"
    /\ exteventHandler_ # NoHandler
    /\ IssueAndWait(DeliveryContext, op, wait, wait_for, raised)

\* A handler that calls the client, and the transport.
ReentrantNext ==
    \/ set_event_handler("h1") /\ UNCHANGED brokerVars
    \/ \E arg \in DefaultHandlerArgs("connected") : DefaultHandler("connected", arg)
          /\ UNCHANGED brokerVars
    \/ \E op \in TokenType, wait \in BOOLEAN, wait_for \in WaitFors,
          raised \in Raised : HandlerIssueAndWait(op, wait, wait_for, raised)
                /\ UNCHANGED brokerVars
    \/ make_wait(DeliveryContext) /\ UNCHANGED brokerVars
    \/ \E t \in InFlight, success \in BOOLEAN : DefaultActionListener(t, success)
          /\ UNCHANGED brokerVars
    \/ DispatchCheckHandler /\ UNCHANGED brokerVars
    \/ DispatchCallHandler /\ UNCHANGED brokerVars

SpecReentrant == Init /\ [][ReentrantNext]_vars

\* Two threads that turn consumption on and off and take messages, and the
\* transport that delivers messages; no handler is registered, so a callback
\* ends in the test of the empty slot.
ConsumeRaceNext ==
    \/ \E c \in ConsumerThreads, allow \in BOOLEAN, raised \in Raised :
          consume_message_lock(c, allow, raised) /\ UNCHANGED brokerVars
    \/ \E c \in ConsumerThreads : consume_message_store(c) /\ UNCHANGED brokerVars
    \/ \E c \in ConsumerThreads : get_next_message_load(c) /\ UNCHANGED brokerVars
    \/ \E c \in ConsumerThreads, raised \in Raised, outcome \in StoppedOutcomes :
          get_next_message_try(c, raised, outcome) /\ UNCHANGED brokerVars
    \/ \E arg \in DefaultHandlerArgs("message") : DefaultHandler("message", arg)
          /\ UNCHANGED brokerVars

SpecConsumeRace == Init /\ [][ConsumeRaceNext]_vars

\* The requests, the wait of disconnect, one handler, and the transport with
\* the state of the connection.
ConnNext ==
    \/ set_event_handler("h1") /\ UNCHANGED brokerVars
    \/ \E c \in Callers, op \in TokenType, raised \in Raised : Request(c, op, raised)
    \/ \E c \in Callers, wait \in BOOLEAN, wait_for \in WaitFors, raised \in Raised :
          DisconnectAndWait(c, wait, wait_for, raised)
    \/ \E c \in Callers : make_wait(c) /\ UNCHANGED brokerVars
    \/ \E t \in InFlight, success \in BOOLEAN : Completion(t, success)
    \/ ConnectedNotice
    \/ \E arg \in Causes, automatic_reconnect \in BOOLEAN :
          ConnectionLost(arg, automatic_reconnect)
    \/ \E arg \in Causes : Reconnected(arg)
    \/ \E arg \in ReportedDisconnectData : ServerDisconnected(arg)
    \/ DispatchCheckHandler /\ UNCHANGED brokerVars
    \/ DispatchCallHandler /\ UNCHANGED brokerVars

SpecConn == Init /\ [][ConnNext]_vars

\* The transport's callback thread keeps running: a callback that is due is made
\* and a dispatch under way goes on.
SpecConnFair ==
    /\ SpecConn
    /\ WF_vars(ConnectedNotice)
    /\ WF_vars(DispatchCheckHandler /\ UNCHANGED brokerVars)
    /\ WF_vars(DispatchCallHandler /\ UNCHANGED brokerVars)

\* The requests, the transport with the state of the connection, and the
\* destruction of the client, after which nothing is called on it; no handler
\* is registered.
TeardownNext ==
    \/ \E c \in Callers, op \in TokenType, raised \in Raised :
          ~Destroyed /\ Request(c, op, raised)
    \/ \E t \in InFlight, success \in BOOLEAN : ~Destroyed /\ Completion(t, success)
    \/ ~Destroyed /\ ConnectedNotice
    \/ \E c \in Callers, raised \in Raised : Destructor(c, raised)

SpecTeardown == Init /\ [][TeardownNext]_vars

\* A client with either version of the protocol in its connect options.
InitRoundTrip ==
    /\ InitClient
    /\ cv = CallbackVariantNone
    /\ accRes = NoAccess
    /\ InitBroker
    /\ protocol \in ProtocolVersions

\* One handler, subscribe and publish to one topic, and the broker that sends
\* the client its own messages.
RoundTripNext ==
    \/ set_event_handler("h1") /\ UNCHANGED brokerVars
    \/ \E c \in Callers, qos \in QosAsked, raised \in Raised, granted \in BOOLEAN :
          subscribe(c, qos, raised, granted)
    \/ \E c \in Callers, payload \in Payloads, qos \in QosAsked, raised \in Raised :
          publish(c, payload, qos, raised)
    \/ \E t \in InFlight, success \in BOOLEAN : Acknowledge(t, success)
    \/ \E ptr \in 1..Len(heap) : MessageArrives(ptr)
    \/ DispatchCallHandler /\ UNCHANGED brokerVars

SpecRoundTrip == InitRoundTrip /\ [][RoundTripNext]_vars

\* The broker delivers what it has sent and the transport's callback thread
\* keeps running.
SpecRoundTripFair ==
    /\ SpecRoundTrip
    /\ \A ptr \in 1..MaxActs : WF_vars(MessageArrives(ptr))
    /\ WF_vars(DispatchCallHandler /\ UNCHANGED brokerVars)

\* subscribe with any QoS and the acknowledgements of the transport.
SubscribeNext ==
    \/ \E c \in Callers, qos \in QosAsked, raised \in Raised, granted \in BOOLEAN :
          subscribe(c, qos, raised, granted)
    \/ \E t \in InFlight, success \in BOOLEAN : Acknowledge(t, success)

SpecSubscribe == Init /\ [][SubscribeNext]_vars

\* Message consumption, the handler slot and the transport.
ConsumeNext ==
    \/ \E h \in Handlers : set_event_handler(h) /\ UNCHANGED brokerVars
    \/ \E c \in Callers, allow \in BOOLEAN, raised \in Raised :
          consume_message(c, allow, raised) /\ UNCHANGED brokerVars
    \/ \E c \in Callers, raised \in Raised : get_next_message(c, raised)
          /\ UNCHANGED brokerVars
    \/ \E c \in Callers, op \in {"PUBLISH", "DISCONNECT"}, raised \in Raised :
          IssueByToken(c, op, raised) /\ UNCHANGED brokerVars
    \/ TransportNext

SpecConsume == Init /\ [][ConsumeNext]_vars

\* ------------------------------------------- CallbackVariant on its own
\* Every CallbackVariant the constructors of types.hpp build.
VariantPtrs == 0..MaxPtr
VariantStrings == {"", "cause", "topic"}
VariantValues ==
    {CallbackVariantNone}
    \cup {CallbackVariantToken(tok_ptr) : tok_ptr \in VariantPtrs}
    \cup {CallbackVariantMessage(mes_ptr) : mes_ptr \in VariantPtrs}
    \cup {CallbackVariantDeliveryToken(del_tok_ptr) : del_tok_ptr \in VariantPtrs}
    \cup {CallbackVariantString(str) : str \in VariantStrings}
    \cup {CallbackVariantDisconnectData(disconn_data) :
             disconn_data \in DisconnectDataValues}

Accessors == {"asToken", "asMessage", "asDeliveryToken", "asString", "asDisconnectData"}

CallAccessor(acc, v) ==
    CASE acc = "asToken" -> asToken(v)
      [] acc = "asMessage" -> asMessage(v)
      [] acc = "asDeliveryToken" -> asDeliveryToken(v)
      [] acc = "asString" -> asString(v)
      [] acc = "asDisconnectData" -> asDisconnectData(v)

InitVariant ==
    /\ InitClient
    /\ cv \in VariantValues
    /\ accRes = NoAccess
    /\ InitBroker
    /\ protocol = "MQTTVERSION_DEFAULT"

\* A const accessor is called on cv: what it was called on and what came back.
Access(acc) ==
    /\ accRes' = [acc |-> acc, ok |-> CallAccessor(acc, cv).ok,
                  val |-> CallAccessor(acc, cv).val, on |-> cv]
    /\ cv' = cv
    /\ UNCHANGED <<clientVars, transportVars, historyVars, nActs, call>>

\* cv = other (operator=): destroy, then copyFrom.
Assign(other) ==
    /\ cv' = copyFrom(other)
    /\ accRes' = NoAccess
    /\ UNCHANGED <<clientVars, transportVars, historyVars, nActs, call>>

VariantNext ==
    \/ \E acc \in Accessors : Access(acc) /\ UNCHANGED brokerVars
    \/ \E other \in VariantValues : Assign(other) /\ UNCHANGED brokerVars

SpecVariant == InitVariant /\ [][VariantNext]_vars

\* ------------------------------------------------------------- properties
Delivered == 1..Len(log)
CallEnded(c) == call[c].phase \in {"returned", "threw"}
ReturnedTrue(c) == call[c].phase = "returned" /\ call[c].res

\* The deliveries of the synthesized event for the acknowledgement of token t.
SynthesizedFor(t) == {j \in Delivered : log[j].synth /\ log[j].cause = t}

\* C1: an EVENT_ACTION_SUCCESS whose token is of type DISCONNECT makes exactly one
\* synthesized EVENT_DISCONNECTED reach the registered handler: the handler that
\* was registered when the acknowledgement was dispatched, and stayed registered
\* through it, receives that one synthesized event before the acknowledgement;
\* no acknowledgement ever has two.
C1_ExactlyOneSynthesized ==
    \A t \in 1..Len(tokens) :
        /\ Cardinality(SynthesizedFor(t)) <= 1
        /\ \A i \in Delivered :
              ( /\ log[i].event = "EVENT_ACTION_SUCCESS"
                /\ log[i].cause = t
                /\ tokens[t].type = "DISCONNECT"
                /\ log[i].stable )
              => \E j \in SynthesizedFor(t) :
                    /\ j < i
                    /\ log[j].event = "EVENT_DISCONNECTED"
                    /\ log[j].handler = log[i].handler

C1_Witness ==
    \E i \in Delivered :
        /\ log[i].event = "EVENT_ACTION_SUCCESS"
        /\ log[i].stable
        /\ log[i].cause # NullPtr
        /\ tokens[log[i].cause].type = "DISCONNECT"
        /\ Cardinality(SynthesizedFor(log[i].cause)) = 1
        /\ \E k \in Delivered :
              log[k].event = "EVENT_DISCONNECTED" /\ ~log[k].synth

C3_SingleSlot ==
    /\ exteventHandler_ = NoHandler /\ log = <<>>
    /\ [][ /\ exteventHandler_' = lastRegistered'
           /\ (lastRegistered' # lastRegistered \/ exteventHandler_' # exteventHandler_)
              => log' = log
           /\ log' # log =>
                 /\ Len(log') = Len(log) + 1
                 /\ SubSeq(log', 1, Len(log)) = log
                 /\ lastRegistered # NoHandler
                 /\ log'[Len(log')].handler = lastRegistered
                 /\ stack # <<>>
                 /\ log'[Len(log')].event = Top(stack).event
                 /\ log'[Len(log')].passed = Top(stack).passed ]_vars

C3_Witness ==
    /\ Len(log) = 2
    /\ log[1].handler = "h1"
    /\ log[2].handler = "h2"
    /\ lastRegistered = "h2"
    /\ stack = <<>>

\* C4: no call of connect, disconnect, subscribe, unsubscribe or publish ends with
\* an exception leaving it.
C4_NoExceptionEscapes == \A c \in Callers : call[c].phase # "threw"

\* C5: a call that has ended returned a boolean, true exactly when issuing the
\* request raised nothing, whatever became of the operation afterwards.
C5_AcceptedSignal ==
    \A c \in Callers :
        CallEnded(c) =>
            /\ call[c].phase = "returned"
            /\ call[c].res = (call[c].raised = "nothing")

\* C6: once an operation has failed, a failure reported by the transport as
\* EVENT_ACTION_FAILURE included, the trace is not NONE until the next attempt.
C6_FailureVisible == failureReported => excPtr_ # "NONE"

\* C7: after an attempt the trace is the one of what the attempt raised, NONE,
\* MQTT, STANDARD or UNKNOWN, and the call returned true exactly when it is NONE.
C7_TraceOverwritten ==
    \A c \in Callers :
        CallEnded(c) =>
            /\ excPtr_ = ExceptionTraceOf(call[c].raised)
            /\ ReturnedTrue(c) <=> (excPtr_ = "NONE")

\* The payload type each kind of event is to carry.
PayloadTypeOf(event) ==
    CASE event \in {"EVENT_CONNECTED", "EVENT_CONNECTION_LOST"} -> "String"
      [] event = "EVENT_DISCONNECTED" -> "DisconnectData"
      [] event = "EVENT_MESSAGE_ARRIVED" -> "MessagePointer"
      [] event \in {"EVENT_ACTION_SUCCESS", "EVENT_ACTION_FAILURE"} -> "TokenPointer"
      [] event = "EVENT_DELIVERY_COMPLETE" -> "DeliveryTokenPointer"
      [] event = "EVENT_CONNECTION_UPDATE" -> "ConnectData"

AccessorType(acc) ==
    CASE acc = "asToken" -> "TokenPointer"
      [] acc = "asMessage" -> "MessagePointer"
      [] acc = "asDeliveryToken" -> "DeliveryTokenPointer"
      [] acc = "asString" -> "String"
      [] acc = "asDisconnectData" -> "DisconnectData"

\* C9: an accessor returns the stored value when the variant holds the accessor's
\* type and otherwise raises an error instead of a value; either way the
\* variant is what it was; exactly one accessor succeeds on a variant that is
\* not None and none succeeds on None.
C9_Accessors ==
    /\ accRes.acc # "none" =>
          /\ cv = accRes.on
          /\ accRes.ok <=> (cv.type = AccessorType(accRes.acc))
          /\ accRes.ok => accRes.val = cv.val
          /\ ~accRes.ok => accRes.val = "runtime_error"
    /\ Cardinality({acc \in Accessors : CallAccessor(acc, cv).ok})
          = IF cv.type = "None" THEN 0 ELSE 1

C9_Witness ==
    /\ accRes.acc = "asDisconnectData"
    /\ accRes.ok
    /\ accRes.val \in DisconnectDataValues
    /\ accRes.val.props = {"USER_PROPERTY"}

\* C10: the token an EVENT_ACTION_SUCCESS or EVENT_ACTION_FAILURE carries has the
\* identifier of the token the issuing call handed back, and no two issued
\* tokens have the same identifier.
C10_SameCorrelation ==
    /\ \A i \in Delivered :
          log[i].event \in {"EVENT_ACTION_SUCCESS", "EVENT_ACTION_FAILURE"} =>
              tokens[asToken(log[i].info).val].msgId = tokens[log[i].cause].msgId
    /\ \A a, b \in 1..Len(tokens) :
          ( /\ tokens[a].origin = "issued"
            /\ tokens[b].origin = "issued"
            /\ tokens[a].msgId = tokens[b].msgId ) => a = b

\* The completion events the handler received for the operation of token t.
CompletionsOf(t) ==
    {i \in Delivered :
        /\ log[i].event \in {"EVENT_ACTION_SUCCESS", "EVENT_ACTION_FAILURE"}
        /\ log[i].cause = t}

\* C11: for every issued operation the handler receives at most one completion
\* event: one EVENT_ACTION_SUCCESS or one EVENT_ACTION_FAILURE, never both and
\* never one of them twice.
C11_AtMostOneCompletion ==
    \A t \in 1..Len(tokens) : Cardinality(CompletionsOf(t)) <= 1

C11_Witness ==
    \E a, b \in 1..Len(tokens) :
        /\ a # b
        /\ \E i \in CompletionsOf(a) : log[i].event = "EVENT_ACTION_SUCCESS"
        /\ \E j \in CompletionsOf(b) : log[j].event = "EVENT_ACTION_FAILURE"
        /\ stack = <<>>

\* C12: the handler sees events in the order in which the transport made the
\* callbacks: an event seen earlier belongs to a callback that came no later,
\* and two events of one callback are the synthesized event and then the
\* acknowledgement that caused it.
C12_ArrivalOrder ==
    \A i, j \in Delivered :
        i < j =>
            /\ log[i].arrival <= log[j].arrival
            /\ log[i].arrival = log[j].arrival =>
                  /\ log[i].synth
                  /\ ~log[j].synth
                  /\ log[i].cause = log[j].cause

\* Two operations acknowledged, and seen by the handler, against the order in
\* which they were issued.
C12_Witness ==
    \E i, j \in Delivered :
        /\ i < j
        /\ log[i].cause # NullPtr
        /\ log[j].cause # NullPtr
        /\ log[j].cause < log[i].cause
        /\ log[i].arrival < log[j].arrival

\* The operations the transport has acknowledged, and the tokens the listeners
\* have built for the events of acknowledgements.
Acknowledged ==
    {t \in 1..Len(tokens) :
        tokens[t].origin = "issued" /\ tokens[t].rc \in {"ok", "fail"}}
ListenerMade == {t \in 1..Len(tokens) : tokens[t].origin = "created"}

\* C13: after a wait has ended by its timeout the operation is not cancelled: its
\* token is still in flight, or the transport has acknowledged it since and the
\* listener has dispatched the event of every acknowledgement.
C13_TimeoutKeepsInFlight ==
    \A c \in Callers :
        call[c].timedOut =>
            \/ call[c].token \in InFlight
            \/ /\ call[c].token \in Acknowledged
               /\ Cardinality(ListenerMade) = Cardinality(Acknowledged)

C13_Witness ==
    \E c \in Callers :
        /\ call[c].timedOut
        /\ call[c].mode = "timed"
        /\ call[c].token \in Acknowledged
        /\ CompletionsOf(call[c].token) # {}

\* C14: an accepted call with wait=true and wait_for=0 has not ended unless its
\* token is complete, and a call with wait=false, like a token overload, is
\* never in a wait.
C14_WaitModes ==
    \A c \in Callers :
        /\ (call[c].mode = "forever" /\ CallEnded(c) /\ call[c].res)
              => /\ tokens[call[c].token].complete
                 /\ ~call[c].timedOut
        /\ call[c].mode \in {"nowait", "token"}
              => call[c].phase # "waiting" /\ ~call[c].timedOut

C14_Witness ==
    \E c \in Callers :
        /\ call[c].mode = "forever"
        /\ call[c].phase = "returned"
        /\ call[c].res
        /\ tokens[call[c].token].rc = "ok"

\* What the caller has in hand when a call has ended: how it ended, the value
\* returned, and the trace of get_last_exception.
CallResult(c) == <<call[c].phase, call[c].res, excPtr_>>
\* The results of calls whose operation completed: true returned, or the
\* exception of the failed operation.
CompletedResults == {<<"returned", TRUE, "NONE">>, <<"threw", TRUE, "NONE">>}

\* C15: a call whose wait ended by the timeout hands the caller a result that a
\* call whose operation completed does not give.
C15_TimedOutDistinguishable ==
    \A c \in Callers :
        (CallEnded(c) /\ call[c].timedOut) => CallResult(c) \notin CompletedResults

\* C16: the transport's callback thread, which runs the dispatch and the external
\* handler, is in no reachable state inside a wait for an operation's
\* completion.
C16_DeliveryContextNeverWaits == ~Blocked

\* C17: however start_saving_message, stop_saving_message and get_next_message
\* of different threads interleave, get_next_message never performs
\* try_consume_message while the client's consumption is stopped.
C17_NoTryWhileStopped ==
    \A c \in ConsumerThreads : call[c].mode # "get_next_stopped"

\* C18: a get_next_message made while consumption is disabled returns false,
\* stores nothing in msg, leaves the queue alone, and leaves in the exception
\* trace something other than "no error".
C18_DisabledDistinguishable ==
    \A c \in Callers :
        (call[c].mode = "get_next_disabled" /\ call[c].phase = "returned") =>
            /\ ~call[c].res
            /\ call[c].got = NullPtr
            /\ excPtr_ # ExceptionTraceDefault

\* C19: get_next_message returns true exactly when it took a message from the
\* queue and stored it in msg; enabled and with an empty queue it returns false.
C19_TrueIffMessageTaken ==
    \A c \in Callers :
        (call[c].mode = "get_next" /\ CallEnded(c)) =>
            (call[c].res <=> call[c].got # NullPtr)

\* C20: start_saving_message and stop_saving_message are idempotent: from any
\* state of the client, a second call made right after the first, with the same
\* answer of the transport, leaves the enable flag, the consuming mode, the
\* queued messages and the exception trace as the first call left them, and
\* returns the same value.
C20_Idempotent ==
    \A allow \in BOOLEAN, raised \in Raised :
        LET once == ConsumeMessageOutcome(ConsumeState(FALSE), allow, raised)
        IN  ConsumeMessageOutcome(once, allow, raised) = once
\* stop_saving_message has returned true twice in a row.
C20_Witness ==
    \E c \in Callers :
        /\ call[c].mode = "stop"
        /\ call[c].again
        /\ call[c].phase = "returned"
        /\ call[c].res
        /\ nActs = 3
        /\ ~consumeFlag_
        /\ ~consuming
        /\ queue = <<>>
        /\ excPtr_ = ExceptionTraceDefault

\* C21: a stop_saving_message that succeeds does not clear the messages already
\* queued, and while consumption stays stopped no message is added to the queue.
C21_StopKeepsQueue ==
    [][/\ \A c \in Callers :
             consume_message(c, FALSE, "nothing") => queue' = queue
       /\ (~consuming /\ ~consuming') => Len(queue') <= Len(queue)]_vars

\* C22: is_saving_message() is false at first; a start_saving_message or
\* stop_saving_message that returns true leaves it true, respectively false, one
\* that returns false leaves it as it was, and nothing else changes it.
C22_FlagFollowsCalls ==
    /\ ~is_saving_message
    /\ [][/\ \A c \in Callers, allow \in BOOLEAN, raised \in Raised :
                consume_message(c, allow, raised) =>
                    IF call'[c].res THEN is_saving_message' = allow
                    ELSE is_saving_message' = is_saving_message
          /\ is_saving_message' # is_saving_message =>
                \E c \in Callers, allow \in BOOLEAN :
                    consume_message(c, allow, "nothing")]_vars
\* A stop_saving_message has returned false after a start_saving_message that
\* returned true: the flag still reads true.
C22_Witness ==
    \E c \in Callers :
        /\ call[c].mode = "stop"
        /\ call[c].phase = "returned"
        /\ ~call[c].res
        /\ is_saving_message
        /\ consuming

\* C28: a token overload that returns true has set the caller's token to the
\* handle of the operation it has just issued, which is not null; one that
\* returns false has left the caller's token as it was and issued nothing.
C28_TokenArgument ==
    [][\A c \in Callers, op \in TokenType, raised \in Raised :
          IssueByToken(c, op, raised) =>
              IF call'[c].res
              THEN /\ call'[c].token # NullPtr
                   /\ call'[c].token = Len(tokens')
                   /\ Len(tokens') = Len(tokens) + 1
                   /\ tokens'[call'[c].token].type = op
                   /\ call'[c].token \in {t \in 1..Len(tokens') :
                                            tokens'[t].origin = "issued"
                                            /\ ~tokens'[t].complete}
              ELSE /\ call'[c].token = call[c].token
                   /\ tokens' = tokens]_vars
\* A token overload has returned false to a caller that holds the token of an
\* earlier request: the caller still holds it.
C28_Witness ==
    \E c \in Callers :
        /\ call[c].mode = "token"
        /\ call[c].phase = "returned"
        /\ ~call[c].res
        /\ call[c].token # NullPtr
        /\ Len(tokens) >= call[c].token

\* The steps of the connection's state.
ConnStep == <<connState, connState'>>
CycleSteps ==
    {<<"Disconnected", "Connecting">>, <<"Connecting", "Connected">>,
     <<"Connected", "Disconnecting">>, <<"Disconnecting", "Disconnected">>}
LostSteps == {<<"Connected", "Connecting">>, <<"Connected", "Disconnected">>}
ConnectInFlight == \E t \in InFlight : tokens[t].type = "CONNECT"
ConnectCompletes(t) == tokens[t].type = "CONNECT" /\ Completion(t, TRUE)

\* C23: connected() is false before any connect and after a disconnect(wait =
\* true) that returned true; it is true once a connect has completed with
\* success, and stays true until a disconnect is requested, the connection is
\* lost or the broker disconnects.
C23_ConnectedReads ==
    /\ []((\A t \in 1..Len(tokens) : tokens[t].type # "CONNECT") => ~connected)
    /\ [](\A c \in Callers :
            (call[c].mode \in {"forever", "timed"} /\ ReturnedTrue(c)
             /\ tokens[call[c].token].type = "DISCONNECT") => ~connected)
    /\ [][/\ \A t \in InFlight : ConnectCompletes(t) => connected'
          /\ (connected /\ ~connected') =>
                \/ \E c \in Callers, raised \in Raised :
                      Request(c, "DISCONNECT", raised)
                \/ \E c \in Callers, wait \in BOOLEAN, wait_for \in WaitFors,
                      raised \in Raised : DisconnectAndWait(c, wait, wait_for, raised)
                \/ \E arg \in Causes, automatic_reconnect \in BOOLEAN :
                      ConnectionLost(arg, automatic_reconnect)
                \/ \E arg \in ReportedDisconnectData : ServerDisconnected(arg)]_vars
\* A disconnect(true) has returned true on a connection that a connect had made.
C23_Witness ==
    \E c \in Callers, t \in 1..Len(tokens) :
        /\ call[c].mode = "forever"
        /\ ReturnedTrue(c)
        /\ tokens[call[c].token].type = "DISCONNECT"
        /\ tokens[call[c].token].rc = "ok"
        /\ tokens[t].type = "CONNECT"
        /\ tokens[t].rc = "ok"
        /\ t < call[c].token
        /\ ~connected

ConnectedSeen(t) ==
    \E i \in Delivered : log[i].event = "EVENT_CONNECTED" /\ log[i].cause = t
\* C25: once the connect that was accepted has completed with success,
\* connected() is true, and the registered handler is eventually called with
\* EVENT_CONNECTED.
C25_ConnectedDispatched ==
    /\ [][\A t \in InFlight :
             ConnectCompletes(t) => (connected' /\ connNotice' = t)]_vars
    /\ \A t \in 1..(2 * MaxActs) :
          (connNotice = t /\ exteventHandler_ # NoHandler) ~> ConnectedSeen(t)
\* The handler has seen EVENT_CONNECTED for a connect that returned true.
C25_Witness ==
    \E c \in Callers :
        /\ call[c].mode = "token"
        /\ ReturnedTrue(c)
        /\ call[c].token # NullPtr
        /\ tokens[call[c].token].type = "CONNECT"
        /\ tokens[call[c].token].rc = "ok"
        /\ ConnectedSeen(call[c].token)
        /\ connected

\* C29: a connect made while an earlier connect is in flight returns false and
\* issues no second connect.
C29_AlreadyConnecting ==
    [][\A c \in Callers, raised \in Raised :
          (Request(c, "CONNECT", raised) /\ ConnectInFlight) =>
              (~call'[c].res /\ tokens' = tokens)]_vars

\* C30: a subscribe, publish, unsubscribe or disconnect made while the client is
\* disconnected returns false, issues nothing, and leaves in the exception trace
\* an error of another type than the failures of the transport.
C30_NotConnectedFailsFast ==
    [][\A c \in Callers, op \in TokenType \ {"CONNECT"}, raised \in Raised :
          (Request(c, op, raised) /\ connState = "Disconnected") =>
              /\ ~call'[c].res
              /\ tokens' = tokens
              /\ excPtr_' # ExceptionTraceDefault
              /\ excPtr_' \notin TransportFailureTraces]_vars

\* C26: a subscribe with a QoS outside {0, 1, 2} returns false, issues no
\* subscription, leaves a failure in the exception trace and leaves the caller's
\* token as it was.
C26_InvalidQosRejected ==
    [][\A c \in Callers, qos \in QosAsked \ ValidQos, raised \in Raised,
          granted \in BOOLEAN :
          subscribe(c, qos, raised, granted) =>
              /\ ~call'[c].res
              /\ tokens' = tokens
              /\ subscription' = subscription
              /\ excPtr_' # ExceptionTraceDefault
              /\ call'[c].token = call[c].token]_vars
\* A subscribe with a QoS that is none has returned false to a caller that holds
\* the token of an earlier subscribe.
C26_Witness ==
    \E c \in Callers :
        /\ asked.op = "SUBSCRIBE"
        /\ asked.qos \notin ValidQos
        /\ call[c].phase = "returned"
        /\ ~call[c].res
        /\ call[c].token # NullPtr
        /\ excPtr_ = ExceptionTraceOf("mqtt")
        /\ Len(tokens) >= 1
        /\ subscription # {}

\* The handler has been called with EVENT_MESSAGE_ARRIVED for a message of the
\* topic with this payload and this QoS.
MessageSeen(payload, qos) ==
    \E i \in Delivered :
        /\ log[i].event = "EVENT_MESSAGE_ARRIVED"
        /\ log[i].info.type = "MessagePointer"
        /\ log[i].info.val \in 1..Len(heap)
        /\ heap[log[i].info.val].topic = Topic
        /\ heap[log[i].info.val].payload = payload
        /\ heap[log[i].info.val].qos = qos
\* The client, subscribed to the topic and with a handler registered, has just
\* published this payload with this QoS.
JustPublished(payload, qos) ==
    /\ asked = [op |-> "PUBLISH", qos |-> qos, payload |-> payload]
    /\ \E c \in Callers : call[c].mode = "token" /\ ReturnedTrue(c)
                          /\ tokens[call[c].token].type = "PUBLISH"
    /\ \E t \in 1..Len(tokens) : tokens[t].type = "SUBSCRIBE" /\ tokens[t].rc = "ok"
    /\ subscription # {}
    /\ exteventHandler_ # NoHandler
\* C27: when a client that has subscribed to the topic publishes a payload with
\* a QoS to it, its handler is called with EVENT_MESSAGE_ARRIVED for a message
\* of that topic with that payload and that QoS.
C27_RoundTrip ==
    \A payload \in Payloads, qos \in ValidQos :
        JustPublished(payload, qos) ~> MessageSeen(payload, qos)

\* C31: the handler registered when the transport reports a lost connection
\* receives EVENT_CONNECTION_LOST with the cause of that report before it
\* receives any EVENT_CONNECTED that follows the loss.
C31_LostBeforeReconnect ==
    \A j \in Delivered :
        ( /\ log[j].event = "EVENT_CONNECTED"
          /\ lost.handler # NoHandler
          /\ lost.arrival < log[j].arrival )
        => \E i \in 1..(j - 1) :
              /\ log[i].event = "EVENT_CONNECTION_LOST"
              /\ log[i].arrival = lost.arrival
              /\ log[i].info = CallbackVariantString(lost.cause)
              /\ log[i].handler = lost.handler
\* A connection was lost with a cause, client_ connected again by itself, and
\* the handler has received both events.
C31_Witness ==
    /\ lost.cause = "cause"
    /\ lost.handler # NoHandler
    /\ connState = "Connected"
    /\ \E j \in Delivered :
          /\ log[j].event = "EVENT_CONNECTED"
          /\ log[j].cause = NullPtr
          /\ log[j].arrival > lost.arrival

\* C32: every callback of the transport makes one event of its kind reach the
\* registered handler; in particular, once a publish has been completed by the
\* transport, the handler receives an EVENT_DELIVERY_COMPLETE for it.
C32_DeliveryCompleteDispatched ==
    \A t \in 1..(2 * MaxActs) :
        ( /\ t <= Len(tokens)
          /\ tokens[t].type = "PUBLISH"
          /\ tokens[t].origin = "issued"
          /\ tokens[t].rc = "ok"
          /\ exteventHandler_ # NoHandler )
        ~> (\E i \in Delivered :
               log[i].event = "EVENT_DELIVERY_COMPLETE" /\ log[i].cause = t)

\* C33: the destruction of a client that is connected or connecting issues a
\* disconnect request to client_.
C33_DisconnectBeforeTeardown ==
    [][\A c \in Callers, raised \in Raised :
          (Destructor(c, raised) /\ connState \in {"Connected", "Connecting"})
          => /\ Len(tokens') = Len(tokens) + 1
             /\ tokens'[Len(tokens')].type = "DISCONNECT"]_vars

\* The invocations of the handler made for the callback an invocation belongs to.
SameCallback(i) == {k \in Delivered : log[k].arrival = log[i].arrival}

\* C34: for a disconnect the transport acknowledged as successful, the handler
\* registered through the dispatch is invoked twice: with the synthesized
\* EVENT_DISCONNECTED, whose reason is NORMAL_DISCONNECTION and whose properties
\* hold a reason string, and right after it with the EVENT_ACTION_SUCCESS; the
\* synthesized event never comes after its EVENT_ACTION_SUCCESS.
C34_DisconnectedThenSuccess ==
    /\ \A i \in Delivered :
          ( /\ log[i].event = "EVENT_ACTION_SUCCESS"
            /\ tokens[log[i].cause].type = "DISCONNECT"
            /\ log[i].stable )
          => /\ i > 1
             /\ log[i - 1].event = "EVENT_DISCONNECTED"
             /\ log[i - 1].synth
             /\ log[i - 1].cause = log[i].cause
             /\ log[i - 1].handler = log[i].handler
             /\ log[i - 1].info.type = "DisconnectData"
             /\ log[i - 1].info.val.reason = "NORMAL_DISCONNECTION"
             /\ "REASON_STRING" \in log[i - 1].info.val.props
             /\ Cardinality(SameCallback(i)) = 2
    /\ \A j, k \in Delivered :
          ( /\ log[j].synth
            /\ log[k].event = "EVENT_ACTION_SUCCESS"
            /\ log[k].cause = log[j].cause )
          => j < k
\* The handler has received both events of an acknowledged disconnect and the
\* dispatch has returned.
C34_Witness ==
    /\ stack = <<>>
    /\ Len(log) = 2
    /\ log[1].synth
    /\ log[2].event = "EVENT_ACTION_SUCCESS"
    /\ log[2].stable
    /\ tokens[log[2].cause].type = "DISCONNECT"

\* C35: an EVENT_DISCONNECTED is synthesized only for the EVENT_ACTION_SUCCESS of
\* a disconnect: every EVENT_DISCONNECTED dispatched or delivered on behalf of
\* an operation belongs to a token of type DISCONNECT that completed with
\* success, and no acknowledgement of another kind has one.
C35_OnlyForDisconnectSuccess ==
    /\ \A j \in Delivered :
          (log[j].synth \/ (log[j].event = "EVENT_DISCONNECTED"
                            /\ log[j].cause # NullPtr))
          => /\ log[j].event = "EVENT_DISCONNECTED"
             /\ tokens[log[j].cause].type = "DISCONNECT"
             /\ tokens[log[j].cause].rc = "ok"
    /\ \A k \in 1..Len(stack) :
          (stack[k].synth \/ (stack[k].event = "EVENT_DISCONNECTED"
                              /\ stack[k].cause # NullPtr))
          => /\ stack[k].event = "EVENT_DISCONNECTED"
             /\ tokens[stack[k].cause].type = "DISCONNECT"
             /\ tokens[stack[k].cause].rc = "ok"
\* The handler has received the success of a connect and the failure of a
\* disconnect, and no EVENT_DISCONNECTED.
C35_Witness ==
    /\ stack = <<>>
    /\ \E i \in Delivered :
          /\ log[i].event = "EVENT_ACTION_SUCCESS"
          /\ tokens[log[i].cause].type = "CONNECT"
    /\ \E i \in Delivered :
          /\ log[i].event = "EVENT_ACTION_FAILURE"
          /\ tokens[log[i].cause].type = "DISCONNECT"
    /\ \A i \in Delivered : log[i].event # "EVENT_DISCONNECTED"

\* C36: a callback of the transport that is dispatched while a handler is
\* registered reaches the call of that handler: the processing inside
\* self_handle_callback_event raises nothing, whatever the callback reports.
C36_DispatchNeverAborted ==
    [][\A kind \in DefaultHandlerKinds :
          \A arg \in DefaultHandlerArgs(kind) :
              (DefaultHandler(kind, arg) /\ exteventHandler_ # NoHandler)
              => /\ escaped' = escaped
                 /\ stack' # <<>>
                 /\ Top(stack').pc = "call"
                 /\ Top(stack').event = DefaultHandlerEvent(kind)]_vars

\* C37: the dispatch never calls through an empty slot, also when
\* unset_event_handler runs between its test of the slot and its call.
C37_NeverCallsEmptySlot == escaped # "bad_function_call"

\* C38: with two threads calling the client, a thread whose call returned false
\* because its request raised reads the trace of that failure for as long as
\* it makes no other call: no call of the other thread resets or replaces it.
C38_OwnFailureRead ==
    \A c \in ConsumerThreads :
        ( /\ call[c].phase = "returned"
          /\ ~call[c].res
          /\ call[c].raised # "nothing" )
        => /\ excPtr_ # ExceptionTraceDefault
           /\ excPtr_ = ExceptionTraceOf(call[c].raised)

\* C39: once no start_saving_message or stop_saving_message is under way, the
\* flag is_saving_message() reads tells whether client_ is consuming.
C39_FlagMatchesClient ==
    (\A c \in ConsumerThreads : call[c].phase # "storing")
    => (is_saving_message <=> consuming)

\* C40: a wait is under way only for a request client_ accepted, with the token
\* of that request; a wait overload whose request raised has returned false
\* without a token and without waiting.
C40_WaitOnlyWhenAccepted ==
    \A c \in Callers :
        /\ call[c].phase = "waiting" =>
              /\ call[c].token # NullPtr
              /\ call[c].res
              /\ call[c].raised = "nothing"
              /\ call[c].mode \in {"forever", "timed"}
        /\ (call[c].mode \in {"nowait", "forever", "timed"}
            /\ call[c].raised # "nothing") =>
              /\ call[c].phase = "returned"
              /\ ~call[c].res
              /\ call[c].token = NullPtr
              /\ ~call[c].timedOut
\* The second call of a run, a wait overload with wait = true and wait_for = 0,
\* is in make_wait with the token of its request in flight.
C40_Witness ==
    \E c \in Callers :
        /\ call[c].phase = "waiting"
        /\ call[c].mode = "forever"
        /\ call[c].token \in InFlight
        /\ excPtr_ = ExceptionTraceDefault
        /\ nActs = 2

====
